---- MODULE Spec2Model ----
(***************************************************************************)
(* A model of dubsviewer.py: the leaderboard script that reads a log of    *)
(* (name, timestamp, score) rows and derives the gain leaderboards, the    *)
(* all-time chart, the top-20 progression table, the rolling max-gain      *)
(* list and the seasonal leaderboard.                                      *)
(*                                                                         *)
(* A data frame is a sequence of records.  A cell is [na, v]: na = TRUE is *)
(* a missing value (pandas NaN).  Every sort_values call of the script     *)
(* uses the default kind ("quicksort"), which is not stable: the order of  *)
(* rows with equal keys depends on the installed pandas and numpy, so a    *)
(* sort of the model may return any arrangement that respects the key.     *)
(*                                                                         *)
(* Each section of the script reads only df and the widgets above it, so   *)
(* each section has a specification of its own that starts after the load  *)
(* with a well-formed df; LoadSpec is the load itself.                     *)
(***************************************************************************)
EXTENDS Integers, Sequences, FiniteSets, TLC

VARIABLES
    pc,              \* the next statement of the section being run
    raw,             \* leaderboard_data.csv as text rows
    df,              \* the module-level data frame
    filtered_names,  \* the set parsed from the name filter text area
    now,             \* datetime.now() at the call
    time_window,     \* argument of get_gain_leaderboard: <<>> is None, <<d>> a timedelta
    time_passed,     \* df_filtered of the call after its time test (lines 23-27)
    board,           \* the table get_gain_leaderboard returned
    chart,           \* the branch the all-time chart guard took
    rolling_hours,   \* the rolling window slider
    todo,            \* players the groupby loop has not visited yet
    biggest_changes, \* the list the rolling loop appends to
    rolling_out,     \* what the rolling section displays
    top20_names,     \* the progression cohort
    df_long,         \* the melted progression table
    top5_names,      \* the label cohort
    first_long,      \* df_long of the first run, kept when it is fed back in
    run,             \* 1, or 2 once df_long has been fed back in
    selected_users,  \* the names read from selected_users.txt
    max_scores       \* the seasonal leaderboard table

gainVars == <<filtered_names, now, time_window, time_passed, board, chart>>

rollVars == <<rolling_hours, todo, biggest_changes, rolling_out>>

progVars == <<top20_names, df_long, top5_names, first_long, run>>

seasonVars == <<selected_users, max_scores>>

vars == <<pc, raw, df, gainVars, rollVars, progVars, seasonVars>>

----------------------------------------------------------------------------
(* Bounds and input domains.  Time is counted in hours.  The cohort sizes  *)
(* of the script (head(20), head(5)) are scaled down so that three players *)
(* reach the cut-off.                                                      *)

GainRows == 4

RollRows == 3

ProgRows == 3

RankRows == 3

SeasonRows == 3

LoadRows == 2

CohortSize == 2

LabelSize == 1

Scores == {-5, 5, 1200}

NameOrder == <<"A", "B", "C", "Z">>

Obs(names, times, scores) ==
    [name : names, timestamp : times, score : scores, na : {FALSE}]

Chronological(s) == \A i \in 1..(Len(s) - 1) : s[i].timestamp <= s[i + 1].timestamp

\* The logs of at most n rows, appended in time order.
Logs(names, times, scores, n) ==
    {s \in UNION {[1..k -> Obs(names, times, scores)] : k \in 0..n} : Chronological(s)}

----------------------------------------------------------------------------
(* pandas primitives.                                                      *)

MaxOf(S) == CHOOSE x \in S : \A y \in S : y <= x

MinOf(S) == CHOOSE x \in S : \A y \in S : x <= y

NaN == [na |-> TRUE, v |-> 0]

Cell(x) == [na |-> FALSE, v |-> x]

NameRank(n) == CHOOSE i \in DOMAIN NameOrder : NameOrder[i] = n

\* A set of names as a groupby (sort=True) lists it.
SortedNames(S) ==
    LET pos(n) == Cardinality({m \in S : NameRank(m) < NameRank(n)}) + 1
    IN  [i \in 1..Cardinality(S) |-> CHOOSE n \in S : pos(n) = i]

NamesIn(d) == {d[i].name : i \in DOMAIN d}

ScoresOf(d, n) == {d[i].score : i \in {j \in DOMAIN d : d[j].name = n /\ ~d[j].na}}

CountOf(d, n) == Cardinality({i \in DOMAIN d : d[i].name = n})

Isin(d, S) == SelectSeq(d, LAMBDA r : r.name \in S)

\* Series.max() of one group: missing values are skipped.
GroupMax(d, n) == IF ScoresOf(d, n) = {} THEN NaN ELSE Cell(MaxOf(ScoresOf(d, n)))

\* The order sort_values(ascending=False) puts two keys in: missing last.
CellGe(a, b) == b.na \/ (~a.na /\ a.v >= b.v)

\* sort_values(ascending=False) over an index S with values key: every
\* arrangement of S in non-increasing key order.
DescOrders(S, key) ==
    {s \in [1..Cardinality(S) -> S] :
        /\ \A i, j \in DOMAIN s : i # j => s[i] # s[j]
        /\ \A i, j \in DOMAIN s : i < j => CellGe(key[s[i]], key[s[j]])}

HeadOf(s, n) == SubSeq(s, 1, IF Len(s) < n THEN Len(s) ELSE n)

RangeOf(s) == {s[i] : i \in DOMAIN s}

----------------------------------------------------------------------------
(* get_gain_leaderboard and the all-time chart                             *)

\* timedelta(0) is falsy, like None.
Truthy(tw) == tw # <<>> /\ tw[1] # 0

TimeFiltered(d, tw, nw) ==
    IF Truthy(tw)
    THEN SelectSeq(d, LAMBDA r : r.timestamp >= nw - tw[1])
    ELSE d

NameFiltered(d, fn) == IF fn # {} THEN Isin(d, fn) ELSE d

\* A faulty variant of ValidNames: one observation is enough.
ValidNamesLoose(d) == {n \in NamesIn(d) : CountOf(d, n) > 0}

ValidNames(d) == {n \in NamesIn(d) : CountOf(d, n) > 1}

DfFiltered(d, tw, nw, fn) ==
    LET f == NameFiltered(TimeFiltered(d, tw, nw), fn)
    IN  Isin(f, ValidNames(f))

\* A faulty variant of GainSeries: the last score minus the first.
GainLastMinusFirst(d) ==
    [n \in NamesIn(d) |-> LET g == Isin(d, {n}) IN g[Len(g)].score - g[1].score]

GainSeries(d) == [n \in NamesIn(d) |-> MaxOf(ScoresOf(d, n)) - MinOf(ScoresOf(d, n))]

\* reset_index() of the series, which is named "score", gives the columns
\* name and score; rename(columns={0: "Gain"}) renames a column labelled 0,
\* and there is none.
ResultColumns == <<"name", "score">>

EmptyColumns == <<"name", "Gain">>

HasColumn(t, c) == \E i \in DOMAIN t.columns : t.columns[i] = c

GetGainLeaderboard ==
    /\ pc = "call"
    /\ LET f == DfFiltered(df, time_window, now, filtered_names)
           gain == GainSeries(f)
       IN  IF f = <<>>
           THEN board' = [columns |-> EmptyColumns, rows |-> <<>>]
           ELSE \E order \in DescOrders(NamesIn(f), [n \in NamesIn(f) |-> Cell(gain[n])]) :
                    board' = [columns |-> ResultColumns,
                              rows |-> [i \in DOMAIN order |->
                                          [name |-> order[i], value |-> gain[order[i]]]]]
    /\ time_passed' = TimeFiltered(df, time_window, now)
    /\ pc' = "returned"
    /\ UNCHANGED <<raw, df, filtered_names, now, time_window, chart>>
    /\ UNCHANGED <<rollVars, progVars, seasonVars>>

\* df_all = get_gain_leaderboard(); the guard of the chart reads df_all.
AllTimeChart ==
    /\ pc = "returned"
    /\ time_window = <<>>
    /\ chart' = IF board.rows # <<>> /\ HasColumn(board, "Gain") THEN "chart" ELSE "info"
    /\ pc' = "charted"
    /\ UNCHANGED <<raw, df, filtered_names, now, time_window, time_passed, board>>
    /\ UNCHANGED <<rollVars, progVars, seasonVars>>

----------------------------------------------------------------------------
(* The rolling max-gain loop                                               *)

\* group.sort_values('timestamp'): every arrangement of the group's rows
\* in non-decreasing timestamp order.
TimeOrders(g) ==
    {p \in [DOMAIN g -> DOMAIN g] :
        /\ \A i, j \in DOMAIN g : i # j => p[i] # p[j]
        /\ \A i, j \in DOMAIN g : i < j => g[p[i]].timestamp <= g[p[j]].timestamp}

\* A faulty variant of FutureWindow: the window end is exclusive.
FutureWindowOpen(g, row, w) ==
    SelectSeq(g, LAMBDA r : r.timestamp > row.timestamp /\ r.timestamp < row.timestamp + w)

FutureWindow(g, row, w) ==
    SelectSeq(g, LAMBDA r : r.timestamp > row.timestamp /\ r.timestamp <= row.timestamp + w)

\* for i, row in group.iterrows(): the rows from the k-th on, max_gain so far mg.
RECURSIVE ScanAnchors(_, _, _, _)
ScanAnchors(g, k, w, mg) ==
    IF k > Len(g)
    THEN mg
    ELSE LET fw == FutureWindow(g, g[k], w)
             gain == MaxOf({fw[i].score : i \in DOMAIN fw}) - g[k].score
         IN  ScanAnchors(g, k + 1, w, IF fw # <<>> /\ gain > mg THEN gain ELSE mg)

\* One iteration of "for player, group in df.groupby('name')".
RollingPlayer ==
    /\ pc = "rolling"
    /\ todo # <<>>
    /\ LET player == Head(todo)
           rows == Isin(df, {player})
       IN  \E p \in TimeOrders(rows) :
               LET group == [i \in DOMAIN rows |-> rows[p[i]]]
                   max_gain == ScanAnchors(group, 1, rolling_hours, 0)
               IN  biggest_changes' =
                       IF max_gain > 0
                       THEN Append(biggest_changes, [name |-> player, max_gain |-> max_gain])
                       ELSE biggest_changes
    /\ todo' = Tail(todo)
    /\ UNCHANGED <<pc, raw, df, rolling_hours, rolling_out>>
    /\ UNCHANGED <<gainVars, progVars, seasonVars>>

\* if biggest_changes: sort by max_gain, descending, and show; else warn.
RollingDisplay ==
    /\ pc = "rolling"
    /\ todo = <<>>
    /\ IF biggest_changes # <<>>
       THEN \E order \in DescOrders(DOMAIN biggest_changes,
                                    [i \in DOMAIN biggest_changes |->
                                        Cell(biggest_changes[i].max_gain)]) :
                rolling_out' = [kind |-> "dataframe",
                                rows |-> [i \in DOMAIN order |-> biggest_changes[order[i]]]]
       ELSE rolling_out' = [kind |-> "warning", rows |-> <<>>]
    /\ pc' = "rolled"
    /\ UNCHANGED <<raw, df, rolling_hours, todo, biggest_changes>>
    /\ UNCHANGED <<gainVars, progVars, seasonVars>>

----------------------------------------------------------------------------
(* The progression table                                                   *)

MaxScores(d) == [n \in NamesIn(d) |-> GroupMax(d, n)]

\* A faulty variant of TopNames: head(n) is taken before the sort.
TopNamesUnsorted(d, n) == {HeadOf(SortedNames(NamesIn(d)), n)}

\* df.groupby("name")["score"].max() is indexed by name, in name order,
\* whatever the order of the rows of df.
TopNames(d, n) == {HeadOf(s, n) : s \in DescOrders(NamesIn(d), MaxScores(d))}

SelectTop20 ==
    /\ pc = "top20"
    /\ \E names \in TopNames(df, CohortSize) : top20_names' = names
    /\ pc' = "resample"
    /\ UNCHANGED <<raw, df, df_long, top5_names, first_long, run>>
    /\ UNCHANGED <<gainVars, rollVars, seasonVars>>

\* The (timestamp, name) groups pivot_table keeps: dropna=True drops a group
\* whose aggregate is missing.
PivotIndex(d) == {d[i].timestamp : i \in {j \in DOMAIN d : ~d[j].na}}

PivotColumns(d) == {d[i].name : i \in {j \in DOMAIN d : ~d[j].na}}

\* aggfunc="max" over the rows of one timestamp and name.
PivotTable(d) ==
    [t \in PivotIndex(d), n \in PivotColumns(d) |->
        LET S == {d[i].score : i \in {j \in DOMAIN d :
                      d[j].timestamp = t /\ d[j].name = n /\ ~d[j].na}}
        IN  IF S = {} THEN NaN ELSE Cell(MaxOf(S))]

\* A faulty variant of FFill: the value carried to t is the one before t.
FFillShift(pv, index, columns) ==
    [t \in index, n \in columns |->
        LET prior == {u \in index : u < t /\ ~pv[u, n].na}
        IN  IF prior = {} THEN NaN ELSE pv[MaxOf(prior), n]]

\* sort_index().ffill(): a missing cell takes the last value above it.
FFill(pv, index, columns) ==
    [t \in index, n \in columns |->
        LET prior == {u \in index : u <= t /\ ~pv[u, n].na}
        IN  IF prior = {} THEN NaN ELSE pv[MaxOf(prior), n]]

\* A faulty variant of Clamp: missing cells become 0 too.
ClampFillZero(c) == IF c.na \/ c.v < 0 THEN Cell(0) ELSE c

\* df_pivot[df_pivot < 0] = 0: NaN < 0 is False.
Clamp(c) == IF ~c.na /\ c.v < 0 THEN Cell(0) ELSE c

SortedTimes(S) ==
    [i \in 1..Cardinality(S) |-> CHOOSE t \in S : Cardinality({u \in S : u < t}) + 1 = i]

\* reset_index().melt(id_vars=["timestamp"]): one row per cell, column by
\* column; a missing cell gives a row too.
Melt(pv, index, columns) ==
    LET ts == SortedTimes(index)
        cs == SortedNames(columns)
    IN  [k \in 1..(Len(ts) * Len(cs)) |->
            LET c == ((k - 1) \div Len(ts)) + 1
                r == ((k - 1) % Len(ts)) + 1
            IN  [timestamp |-> ts[r], Player |-> cs[c], Score |-> pv[ts[r], cs[c]]]]

DfLong(d, cohort) ==
    LET df_top20 == Isin(d, cohort)
        index == PivotIndex(df_top20)
        columns == PivotColumns(df_top20)
        filled == FFill(PivotTable(df_top20), index, columns)
        clamped == [t \in index, n \in columns |-> Clamp(filled[t, n])]
    IN  Melt(clamped, index, columns)

\* Statements 2 to 6 of the section: filter, pivot, forward fill, clamp, melt.
Resample ==
    /\ pc = "resample"
    /\ df_long' = DfLong(df, RangeOf(top20_names))
    /\ pc' = "top5"
    /\ UNCHANGED <<raw, df, top20_names, top5_names, first_long, run>>
    /\ UNCHANGED <<gainVars, rollVars, seasonVars>>

SelectTop5 ==
    /\ pc = "top5"
    /\ \E names \in TopNames(df, LabelSize) : top5_names' = names
    /\ pc' = "readsel"
    /\ UNCHANGED <<raw, df, top20_names, df_long, first_long, run>>
    /\ UNCHANGED <<gainVars, rollVars, seasonVars>>

\* The long-form table taken as the observations of a second run.
AsObservations(long) ==
    [i \in DOMAIN long |->
        [name |-> long[i].Player, timestamp |-> long[i].timestamp,
         score |-> long[i].Score.v, na |-> long[i].Score.na]]

Refeed ==
    /\ pc = "top5"
    /\ run = 1
    /\ first_long' = df_long
    /\ df' = AsObservations(df_long)
    /\ run' = 2
    /\ pc' = "top20"
    /\ UNCHANGED <<raw, top20_names, df_long, top5_names>>
    /\ UNCHANGED <<gainVars, rollVars, seasonVars>>

----------------------------------------------------------------------------
(* The seasonal leaderboard                                                *)

SelectedChoices == {{}, {"A", "Z"}, {"B", "C"}, {"A", "B", "C", "Z"}}

\* selected_users.txt, one name per line; a missing file leaves the list empty.
ReadSelectedUsers ==
    /\ pc = "readsel"
    /\ \E s \in SelectedChoices : selected_users' = s
    /\ pc' = "seasonal"
    /\ UNCHANGED <<raw, df, max_scores>>
    /\ UNCHANGED <<gainVars, rollVars, progVars>>

DigitChars == <<"0", "1", "2", "3", "4", "5", "6", "7", "8", "9">>

RECURSIVE FormatNat(_)
FormatNat(n) ==
    IF n < 10
    THEN <<DigitChars[n + 1]>>
    ELSE FormatNat(n \div 10) \o <<DigitChars[(n % 10) + 1]>>

\* The digits of n >= 0 with a comma before every group of three.
RECURSIVE FormatGroups(_)
FormatGroups(n) ==
    IF n < 1000
    THEN FormatNat(n)
    ELSE FormatGroups(n \div 1000) \o <<",">>
            \o <<DigitChars[((n \div 100) % 10) + 1],
                 DigitChars[((n \div 10) % 10) + 1],
                 DigitChars[(n % 10) + 1]>>

\* f"{x:,}"
Format(x) == IF x < 0 THEN <<"-">> \o FormatGroups(-x) ELSE FormatGroups(x)

\* A faulty variant of SeasonTable: players with equal scores share a rank.
SeasonTableTiedRanks(order, ms) ==
    [i \in DOMAIN order |->
        [Rank |-> Cardinality({j \in DOMAIN order : ms[order[j]].v > ms[order[i]].v}) + 1,
         PlayerName |-> order[i],
         HighestScoreSeen |-> Format(ms[order[i]].v)]]

\* Rank is the position after the sort (index + 1); the score column is
\* dropped and its formatted text stays.
SeasonTable(order, ms) ==
    [i \in DOMAIN order |->
        [Rank |-> i,
         PlayerName |-> order[i],
         HighestScoreSeen |-> Format(ms[order[i]].v)]]

SeasonalSnapshot ==
    /\ pc = "seasonal"
    /\ LET df_selected == Isin(df, selected_users)
           ms == MaxScores(df_selected)
           kept == {n \in DOMAIN ms : ~ms[n].na}
       IN  \E order \in DescOrders(kept, ms) : max_scores' = SeasonTable(order, ms)
    /\ pc' = "done"
    /\ UNCHANGED <<raw, df, selected_users>>
    /\ UNCHANGED <<gainVars, rollVars, progVars>>

----------------------------------------------------------------------------
(* The load                                                                *)

RawTimestamps == {[ok |-> TRUE, t |-> 0], [ok |-> TRUE, t |-> 1], [ok |-> FALSE, t |-> 0]}

RawScores == {[num |-> TRUE, v |-> 5], [num |-> FALSE, v |-> 0]}

RawRow == [name : {"A"}, timestamp : RawTimestamps, number_int : RawScores]

RawFiles == UNION {[1..k -> RawRow] : k \in 0..LoadRows}

\* pd.read_csv: every row of the file becomes a row of df.
ReadCsv ==
    /\ pc = "read"
    /\ df' = raw
    /\ pc' = "parse"
    /\ UNCHANGED <<raw, gainVars, rollVars, progVars, seasonVars>>

Unparseable(d) == \E i \in DOMAIN d : ~d[i].timestamp.ok

\* A faulty variant of ToDatetime: errors="coerce", rows that do not parse are dropped.
ToDatetimeCoerce(d) ==
    LET good == SelectSeq(d, LAMBDA r : r.timestamp.ok)
    IN  [ok |-> TRUE,
         df |-> [i \in DOMAIN good |-> [good[i] EXCEPT !.timestamp = good[i].timestamp.t]]]

\* pd.to_datetime(df['timestamp'], format=...): errors="raise" is the default.
ToDatetime(d) ==
    IF Unparseable(d)
    THEN [ok |-> FALSE, df |-> d]
    ELSE [ok |-> TRUE, df |-> [i \in DOMAIN d |-> [d[i] EXCEPT !.timestamp = d[i].timestamp.t]]]

ParseTimestamps ==
    /\ pc = "parse"
    /\ LET r == ToDatetime(df)
       IN  \/ /\ r.ok
              /\ df' = r.df
              /\ pc' = "rename"
           \/ /\ ~r.ok
              /\ df' = df
              /\ pc' = "error"
    /\ UNCHANGED <<raw, gainVars, rollVars, progVars, seasonVars>>

\* df.rename(columns={"number_int": "score"})
RenameScore ==
    /\ pc = "rename"
    /\ df' = [i \in DOMAIN df |->
                 [name |-> df[i].name, timestamp |-> df[i].timestamp, score |-> df[i].number_int]]
    /\ pc' = "loaded"
    /\ UNCHANGED <<raw, gainVars, rollVars, progVars, seasonVars>>

----------------------------------------------------------------------------
(* Specifications                                                          *)

GainIdle ==
    /\ filtered_names = {}
    /\ now = 0
    /\ time_window = <<>>
    /\ time_passed = <<>>
    /\ board = [columns |-> <<>>, rows |-> <<>>]
    /\ chart = "none"

RollIdle ==
    /\ rolling_hours = 1
    /\ todo = <<>>
    /\ biggest_changes = <<>>
    /\ rolling_out = [kind |-> "none", rows |-> <<>>]

ProgIdle ==
    /\ top20_names = <<>>
    /\ df_long = <<>>
    /\ top5_names = <<>>
    /\ first_long = <<>>
    /\ run = 1

SeasonIdle ==
    /\ selected_users = {}
    /\ max_scores = <<>>

GainInit ==
    /\ pc = "call"
    /\ raw = <<>>
    /\ df \in Logs({"A", "B"}, 0..1, Scores, GainRows)
    /\ filtered_names \in {{}, {"A", "Z"}}
    /\ now = 2
    /\ time_window \in {<<>>, <<0>>, <<1>>}
    /\ time_passed = <<>>
    /\ board = [columns |-> <<>>, rows |-> <<>>]
    /\ chart = "none"
    /\ RollIdle /\ ProgIdle /\ SeasonIdle

GainNext == GetGainLeaderboard \/ AllTimeChart

GainSpec == GainInit /\ [][GainNext]_vars

RollInit ==
    /\ pc = "rolling"
    /\ raw = <<>>
    /\ df \in Logs({"A", "B"}, 0..3, Scores, RollRows)
    /\ rolling_hours \in 1..2
    /\ todo = SortedNames(NamesIn(df))
    /\ biggest_changes = <<>>
    /\ rolling_out = [kind |-> "none", rows |-> <<>>]
    /\ GainIdle /\ ProgIdle /\ SeasonIdle

RollNext == RollingPlayer \/ RollingDisplay

RollSpec == RollInit /\ [][RollNext]_vars

ProgInit ==
    /\ pc = "top20"
    /\ raw = <<>>
    /\ df \in Logs({"A", "B", "C"}, 0..2, {-5, 5}, ProgRows)
    /\ GainIdle /\ RollIdle /\ ProgIdle /\ SeasonIdle

ProgNext == SelectTop20 \/ Resample \/ SelectTop5

ProgSpec == ProgInit /\ [][ProgNext]_vars

\* The three max-score rankings of the script, from one df: the cohort, the
\* label cohort and the seasonal table.
RankInit ==
    /\ pc = "top20"
    /\ raw = <<>>
    /\ df \in Logs({"A", "B", "C"}, 0..1, {-5, 5}, RankRows)
    /\ GainIdle /\ RollIdle /\ ProgIdle /\ SeasonIdle

RankNext == SelectTop20 \/ Resample \/ SelectTop5 \/ ReadSelectedUsers \/ SeasonalSnapshot

RankSpec == RankInit /\ [][RankNext]_vars

IdemNext == SelectTop20 \/ Resample \/ Refeed

IdemSpec == ProgInit /\ [][IdemNext]_vars

SeasonInit ==
    /\ pc = "readsel"
    /\ raw = <<>>
    /\ df \in Logs({"A", "B", "C"}, {0}, Scores, SeasonRows)
    /\ GainIdle /\ RollIdle /\ ProgIdle /\ SeasonIdle

SeasonNext == ReadSelectedUsers \/ SeasonalSnapshot

SeasonSpec == SeasonInit /\ [][SeasonNext]_vars

LoadInit ==
    /\ pc = "read"
    /\ raw \in RawFiles
    /\ df = <<>>
    /\ GainIdle /\ RollIdle /\ ProgIdle /\ SeasonIdle

LoadNext == ReadCsv \/ ParseTimestamps \/ RenameScore

LoadSpec == LoadInit /\ [][LoadNext]_vars

----------------------------------------------------------------------------
(* Properties                                                              *)

AllNames == RangeOf(NameOrder)

BoardNames == {board.rows[i].name : i \in DOMAIN board.rows}

\* The rows of df the call's time test and allow-list let through.
Surviving == NameFiltered(time_passed, filtered_names)

\* C1: get_gain_leaderboard returns exactly one entry per player with at
\* least 2 surviving observations; its gain is the largest surviving score
\* minus the smallest, whatever their order in time, and is >= 0; a player
\* whose surviving scores are all equal is listed with gain 0; the entries
\* are in non-increasing gain order.
C1_GainRanking ==
    pc # "call" =>
        LET Q == {p \in AllNames : CountOf(Surviving, p) >= 2}
            rows == board.rows
        IN  /\ Len(rows) = Cardinality(Q)
            /\ BoardNames = Q
            /\ \A i \in DOMAIN rows :
                   LET S == ScoresOf(Surviving, rows[i].name)
                   IN  rows[i].value = MaxOf(S) - MinOf(S) /\ rows[i].value >= 0
            /\ \A p \in Q :
                   Cardinality(ScoresOf(Surviving, p)) = 1 =>
                       \E i \in DOMAIN rows : rows[i].name = p /\ rows[i].value = 0
            /\ \A i, j \in DOMAIN rows : i < j => rows[i].value >= rows[j].value

\* Two entries: the first player's score went down over time and still has
\* a positive gain, the second player's score is constant.
C1_Witness ==
    /\ pc = "returned"
    /\ Len(board.rows) = 2
    /\ board.rows[1].value > 0
    /\ board.rows[2].value = 0
    /\ LET g == Isin(Surviving, {board.rows[1].name})
       IN  g[Len(g)].score < g[1].score

PassesTime(r) == ~Truthy(time_window) \/ r.timestamp >= now - time_window[1]

PassesAllowList(r) == filtered_names = {} \/ r.name \in filtered_names

Remaining(p) ==
    {i \in DOMAIN df : df[i].name = p /\ PassesTime(df[i]) /\ PassesAllowList(df[i])}

\* C2: a player with fewer than 2 observations left after both the time
\* test and the allow-list test is not in the result, however many
\* observations the player has in df; when no player qualifies the result
\* is the empty table.
C2_FewerThanTwoDropped ==
    pc # "call" =>
        /\ \A p \in AllNames : Cardinality(Remaining(p)) < 2 => p \notin BoardNames
        /\ (\A p \in AllNames : Cardinality(Remaining(p)) < 2) => board.rows = <<>>

\* A player with two observations in df, one of them inside the window, is
\* left out of a table that lists another player.
C2_Witness ==
    /\ pc = "returned"
    /\ Truthy(time_window)
    /\ board.rows # <<>>
    /\ \E p \in AllNames :
           /\ CountOf(df, p) >= 2
           /\ Cardinality(Remaining(p)) = 1
           /\ p \notin BoardNames

\* C5: all observations pass the time test only when the duration is
\* absent; with a duration, zero included, an observation passes if and
\* only if its timestamp >= now - duration.
C5_TimeTest ==
    pc # "call" =>
        time_passed = IF time_window = <<>>
                      THEN df
                      ELSE SelectSeq(df, LAMBDA r : r.timestamp >= now - time_window[1])

\* C10: every table get_gain_leaderboard returns has the fields name and
\* Gain, so the all-time chart is drawn exactly when the all-time table is
\* not empty.
C10_GainColumn ==
    pc # "call" =>
        /\ board.columns = <<"name", "Gain">>
        /\ pc = "charted" => (chart = "chart" <=> board.rows # <<>>)

----------------------------------------------------------------------------

RowsOf(p) == {i \in DOMAIN df : df[i].name = p}

\* The observations of the same player after anchor i and at most
\* rolling_hours later.
WindowOf(i) ==
    {j \in RowsOf(df[i].name) :
        /\ df[j].timestamp > df[i].timestamp
        /\ df[j].timestamp <= df[i].timestamp + rolling_hours}

Anchors(p) == {i \in RowsOf(p) : WindowOf(i) # {}}

BestGain(p) ==
    MaxOf({MaxOf({df[j].score : j \in WindowOf(i)}) - df[i].score : i \in Anchors(p)})

\* C3: the rolling loop emits player p with value M if and only if M > 0,
\* M being the largest, over the anchors of p with a later observation in
\* (t_i, t_i + W], of the largest score in that window minus the anchor's
\* score; no emitted max_gain is <= 0.
C3_RollingMaxGain ==
    pc = "rolled" =>
        /\ \A p \in AllNames :
               LET e == {k \in DOMAIN biggest_changes : biggest_changes[k].name = p}
               IN  IF Anchors(p) # {} /\ BestGain(p) > 0
                   THEN /\ Cardinality(e) = 1
                        /\ \A k \in e : biggest_changes[k].max_gain = BestGain(p)
                   ELSE e = {}
        /\ \A k \in DOMAIN biggest_changes : biggest_changes[k].max_gain > 0

\* The scenario low at t0, high one hour later, middle three hours later,
\* with a window of two hours: the gain is high - low.
C3_Witness ==
    /\ pc = "rolled"
    /\ rolling_hours = 2
    /\ Len(df) = 3
    /\ \A i \in DOMAIN df : df[i].name = "A"
    /\ df[1].timestamp = 0 /\ df[2].timestamp = 1 /\ df[3].timestamp = 3
    /\ df[1].score < df[3].score /\ df[3].score < df[2].score
    /\ biggest_changes = <<[name |-> "A", max_gain |-> df[2].score - df[1].score]>>

----------------------------------------------------------------------------

DigitValue(c) == (CHOOSE i \in DOMAIN DigitChars : DigitChars[i] = c) - 1

RECURSIVE ReadDigits(_, _)
ReadDigits(s, acc) ==
    IF s = <<>>
    THEN acc
    ELSE IF Head(s) = ","
         THEN ReadDigits(Tail(s), acc)
         ELSE ReadDigits(Tail(s), 10 * acc + DigitValue(Head(s)))

\* The number a "Highest Score Seen" text stands for.
ReadFormatted(s) == IF Head(s) = "-" THEN 0 - ReadDigits(Tail(s), 0) ELSE ReadDigits(s, 0)

SeasonNames == {max_scores[i].PlayerName : i \in DOMAIN max_scores}

\* C4: the seasonal table has exactly one entry per selected name that has
\* an observation, each showing that player's largest score, in
\* non-increasing score order, with ranks 1, 2, ..., N in that order.
C4_SeasonalRanks ==
    pc = "done" =>
        LET present == selected_users \cap NamesIn(df)
        IN  /\ Len(max_scores) = Cardinality(present)
            /\ SeasonNames = present
            /\ \A i \in DOMAIN max_scores :
                   /\ max_scores[i].Rank = i
                   /\ ReadFormatted(max_scores[i].HighestScoreSeen)
                          = MaxOf(ScoresOf(df, max_scores[i].PlayerName))
            /\ \A i, j \in DOMAIN max_scores :
                   i < j => ReadFormatted(max_scores[i].HighestScoreSeen)
                                >= ReadFormatted(max_scores[j].HighestScoreSeen)

\* Three ranked players, two of them tied, one score with a thousands
\* separator, and a selected name with no observation.
C4_Witness ==
    /\ pc = "done"
    /\ "Z" \in selected_users
    /\ Len(max_scores) = 3
    /\ max_scores[1].HighestScoreSeen = <<"1", ",", "2", "0", "0">>
    /\ max_scores[2].HighestScoreSeen = max_scores[3].HighestScoreSeen
    /\ max_scores[3].Rank = 3

----------------------------------------------------------------------------

FirstSeen(p) == MinOf(RowsOf(p))

BestOf(p) == MaxOf(ScoresOf(df, p))

\* The tied players of a ranking come in first-seen order, and a tie across
\* the cut-off goes to the player seen first.
FirstSeenOrder(names) ==
    /\ \A i, j \in DOMAIN names :
           (i < j /\ BestOf(names[i]) = BestOf(names[j])) =>
               FirstSeen(names[i]) < FirstSeen(names[j])
    /\ \A p \in RangeOf(names), q \in NamesIn(df) \ RangeOf(names) :
           BestOf(p) = BestOf(q) => FirstSeen(p) < FirstSeen(q)

\* A ranking lists n distinct players (all of them if there are fewer) in
\* non-increasing order of largest score, and no player left out has a
\* larger score than a player listed.
ScoreOrder(names, n, among) ==
    /\ Len(names) = IF Cardinality(among) < n THEN Cardinality(among) ELSE n
    /\ RangeOf(names) \subseteq among
    /\ \A i, j \in DOMAIN names : i < j => names[i] # names[j] /\ BestOf(names[i]) >= BestOf(names[j])
    /\ \A p \in RangeOf(names), q \in among \ RangeOf(names) : BestOf(p) >= BestOf(q)

SeasonOrder == [i \in DOMAIN max_scores |-> max_scores[i].PlayerName]

\* C6 as stated: players with equal largest score are ranked in the order
\* they are first seen in the rows of df, in the cohort, in the label cohort
\* and in the seasonal table.
C6_FirstSeenTieBreak ==
    /\ pc \notin {"top20"} => FirstSeenOrder(top20_names)
    /\ pc \in {"readsel", "seasonal", "done"} => FirstSeenOrder(top5_names)
    /\ pc = "done" =>
           \A i, j \in DOMAIN max_scores :
               (i < j /\ BestOf(SeasonOrder[i]) = BestOf(SeasonOrder[j])) =>
                   FirstSeen(SeasonOrder[i]) < FirstSeen(SeasonOrder[j])

\* C6 as amended: each max-score ranking is ordered by largest score alone;
\* nothing fixes the order of players with equal largest score, and a tie
\* across the cut-off may go to either player.
C6_ScoreOrderOnly ==
    /\ pc \notin {"top20"} => ScoreOrder(top20_names, CohortSize, NamesIn(df))
    /\ pc \in {"readsel", "seasonal", "done"} => ScoreOrder(top5_names, LabelSize, NamesIn(df))
    /\ pc = "done" =>
           ScoreOrder(SeasonOrder, Cardinality(AllNames), selected_users \cap NamesIn(df))

\* A tie across the cut-off that went to the player seen later, in the
\* ranking a stable sort gives: tied players in name order.
C6_Witness ==
    /\ pc = "resample"
    /\ \A i, j \in DOMAIN top20_names :
           (i < j /\ BestOf(top20_names[i]) = BestOf(top20_names[j])) =>
               NameRank(top20_names[i]) < NameRank(top20_names[j])
    /\ \E p \in RangeOf(top20_names), q \in NamesIn(df) \ RangeOf(top20_names) :
           /\ BestOf(p) = BestOf(q)
           /\ NameRank(p) < NameRank(q)
           /\ FirstSeen(q) < FirstSeen(p)

----------------------------------------------------------------------------

Cohort == RangeOf(top20_names)

\* The time axis: the timestamps of the cohort's observations.
Axis == {df[i].timestamp : i \in {j \in DOMAIN df : df[j].name \in Cohort}}

TimesOf(p) == {df[i].timestamp : i \in RowsOf(p)}

PointsAt(t, p) == {k \in DOMAIN df_long : df_long[k].timestamp = t /\ df_long[k].Player = p}

\* The largest of p's scores at p's latest observation time at or before t.
LatestScore(t, p) ==
    LET u == MaxOf({x \in TimesOf(p) : x <= t})
    IN  MaxOf({df[i].score : i \in {j \in RowsOf(p) : df[j].timestamp = u}})

ClampedLatest(t, p) == IF LatestScore(t, p) < 0 THEN 0 ELSE LatestScore(t, p)

\* C7 as stated: before p's first observation df_long has no row for (t, p);
\* from it on, exactly one, with the clamped score of the latest observation.
C7_NoRowBeforeFirst ==
    pc \in {"top5", "readsel", "seasonal", "done"} =>
        \A p \in Cohort, t \in Axis :
            IF t < MinOf(TimesOf(p))
            THEN PointsAt(t, p) = {}
            ELSE /\ Cardinality(PointsAt(t, p)) = 1
                 /\ \A k \in PointsAt(t, p) :
                        ~df_long[k].Score.na /\ df_long[k].Score.v = ClampedLatest(t, p)

\* C7 as amended: df_long has exactly one row for every cohort player and
\* axis timestamp, and no other row; before p's first observation the row's
\* score is missing (NaN, never 0); from it on the score is the largest of
\* p's scores at p's latest observation time at or before t, or 0 if that
\* is negative.
C7_OneRowPerCell ==
    pc \in {"top5", "readsel", "seasonal", "done"} =>
        /\ Len(df_long) = Cardinality(Cohort) * Cardinality(Axis)
        /\ \A p \in Cohort, t \in Axis :
               /\ Cardinality(PointsAt(t, p)) = 1
               /\ \A k \in PointsAt(t, p) :
                      IF t < MinOf(TimesOf(p))
                      THEN df_long[k].Score.na
                      ELSE ~df_long[k].Score.na /\ df_long[k].Score.v = ClampedLatest(t, p)

\* A table with a missing score, a negative score clamped to 0 and a score
\* carried forward to a timestamp at which the player has no observation.
C7_Witness ==
    /\ pc = "top5"
    /\ \E k \in DOMAIN df_long : df_long[k].Score.na
    /\ \E k \in DOMAIN df_long :
           /\ ~df_long[k].Score.na
           /\ df_long[k].Score.v = 0
           /\ LatestScore(df_long[k].timestamp, df_long[k].Player) < 0
    /\ \E k \in DOMAIN df_long :
           /\ ~df_long[k].Score.na
           /\ df_long[k].timestamp \notin TimesOf(df_long[k].Player)

\* C8: the progression table computed from its own long-form output, taken
\* as the observations, is that output again.
C8_Idempotent == (run = 2 /\ pc = "top5") => df_long = first_long

\* A second run over a first output that holds a missing score, a carried
\* score and a clamped score.
C8_Witness ==
    /\ run = 2
    /\ pc = "top5"
    /\ Len(first_long) >= 4
    /\ \E k \in DOMAIN first_long : first_long[k].Score.na
    /\ \E k \in DOMAIN first_long : ~first_long[k].Score.na /\ first_long[k].Score.v = 0
    /\ \E k, m \in DOMAIN first_long :
           /\ first_long[k].Player = first_long[m].Player
           /\ first_long[k].timestamp < first_long[m].timestamp
           /\ ~first_long[k].Score.na
           /\ first_long[k].Score.v > 0
           /\ first_long[m].Score = first_long[k].Score

----------------------------------------------------------------------------

WellFormed(r) == r.timestamp.ok /\ r.number_int.num

\* C9 as stated: malformed rows are skipped at the load, which never aborts:
\* the loaded df holds exactly the well-formed rows.
C9_MalformedSkipped ==
    /\ pc # "error"
    /\ pc = "loaded" => Len(df) = Len(SelectSeq(raw, WellFormed))

\* C9 as amended: the load skips no row and counts none.  If a timestamp of
\* the file cannot be parsed the load raises and the script ends there;
\* otherwise df holds every row of the file, those with a non-numeric score
\* included.
C9_LoadKeepsOrAborts ==
    /\ pc = "error" => Unparseable(raw)
    /\ pc \in {"rename", "loaded"} => ~Unparseable(raw) /\ Len(df) = Len(raw)
    /\ pc = "loaded" => \A i \in DOMAIN df : df[i].score = raw[i].number_int

\* The load has raised on a file whose other row is well formed.
C9_Witness ==
    /\ pc = "error"
    /\ Len(raw) = 2
    /\ \E i \in DOMAIN raw : WellFormed(raw[i])

Init == GainInit

Next == GainNext

Spec == GainSpec

====
